---- MODULE Spec2Model ----
(***************************************************************************)
(* Model of src/dedupe.py: the interactive duplicate-resolution loop of    *)
(* main() and the archive move of move_to_archive().                       *)
(*                                                                         *)
(* An image path is a number of Images; the order of the numbers is the    *)
(* order of the path strings, which is what sorted() compares.  A score is *)
(* a similarity in units of 1/10000, so that the three-decimal rendering   *)
(* of the announcement is a real rounding.                                 *)
(***************************************************************************)
EXTENDS Integers, Sequences, FiniteSets, TLC

\* The image files of the target directory when the similarity map is built.
Images == {1, 2, 3}

\* Scores the similarity provider may report: each is equal to one of the
\* Thresholds, so below the other or above it.
Scores == {9200, 9504}

\* Largest number of observations (source, match, score) in a raw map.
MaxObs == 2

\* Largest number of files an external program removes during a session.
MaxExternal == 1

\* similarity_threshold when argv has no third word (line 140).
DefaultThreshold == 9200

\* The thresholds a caller passes: the default, and two explicit ones, the
\* higher above every score.
Thresholds == {DefaultThreshold, 9504, 9600}

\* The lines the user may type at the prompt; "x" stands for any other line.
Keys == {"1", "2", "s", "q", "S", "Q", "x"}

VARIABLES
    target_ok,        \* argv[1] names an existing directory
    provider,         \* how far the similarity provider got
    similarity_dict,  \* the raw map: a sequence of [img, matches] entries
    threshold,        \* similarity_threshold
    files,            \* the images that exist at their original path
    archive_exists,   \* <target_dir>/duplicates_archive exists
    arch,             \* per base name, what the archive holds
    compared_pairs,   \* the set compared_pairs
    i,                \* position of the outer for loop in similarity_dict
    j,                \* position of the inner for loop in matches
    pc,               \* the statement main() is at
    choice,           \* the lowered line last read for the current pair
    outcome,          \* how main() ended
    announced,        \* the "Potential duplicates" announcements printed
    prompted,         \* the pairs whose decision prompt was shown
    report,           \* what the rendering block printed for the current pair
    nExternal         \* files removed by other programs so far

vars == <<target_ok, provider, similarity_dict, threshold, files,
          archive_exists, arch,
          compared_pairs, i, j, pc, choice, outcome, announced, prompted,
          report, nExternal>>

----------------------------------------------------------------------------
(* The raw similarity maps get_similarity_dict can return.                 *)

\* One more observation on a map: a further match of the last entry, or a
\* new entry with one match.  A dict has no key twice; the provider lists no
\* image as its own match nor a match twice; an entry without matches is
\* dropped (line 56).
Keys1(m) == {m[k].img : k \in 1..Len(m)}

Targets(e) == {e.matches[k][1] : k \in 1..Len(e.matches)}

Extend(m) ==
    LET n == Len(m)
        more == IF n = 0 THEN {}
                ELSE {[m EXCEPT ![n].matches = Append(@, <<t, s>>)] :
                        t \in Images \ ({m[n].img} \cup Targets(m[n])),
                        s \in Scores}
        fresh == {Append(m, [img |-> a, matches |-> <<(<<t, s>>)>>]) :
                        a \in Images \ Keys1(m),
                        t \in Images, s \in Scores}
    IN more \cup {x \in fresh : x[Len(x)].matches[1][1] # x[Len(x)].img}

RECURSIVE MapsUpTo(_)
MapsUpTo(n) ==
    IF n = 0 THEN {<< >>}
    ELSE LET prev == MapsUpTo(n - 1)
         IN prev \cup UNION {Extend(m) : m \in prev}

RawMaps == MapsUpTo(MaxObs)

\* What the archive directory holds at the start: nothing, or for every
\* base name a file left by an earlier session.
OldArchives ==
    {[f \in Images |-> "none"], [f \in Images |-> "old"]}

----------------------------------------------------------------------------
(* Helpers of main().                                                      *)

Img1 == similarity_dict[i].img
Matches == similarity_dict[i].matches
Img2 == Matches[j][1]
Similarity == Matches[j][2]

\* No test of the filesystem: every path is taken to be there.
Exists_Always(f) == TRUE

\* Path.exists()
Exists(f) == f \in files

\* The pair kept in the order met, not sorted.
SortedPair_Unsorted(a, b) == <<a, b>>

\* tuple(sorted([str(img1_path), str(img2_path)]))
SortedPair(a, b) == IF a <= b THEN <<a, b>> ELSE <<b, a>>

\* A score equal to the threshold is dropped too.
BelowThreshold_Inclusive(s, t) == s <= t

\* similarity < similarity_threshold
BelowThreshold(s, t) == s < t

\* f"{similarity:.3f}": the score in thousandths, rounded to nearest
Format3(s) == (s + 5) \div 10

\* str.lower() on the lines of Keys
Lower(k) == CASE k = "S" -> "s" [] k = "Q" -> "q" [] OTHER -> k

\* `continue` of the inner loop, and `break` of the prompt loop
NextMatch == /\ pc' = "inner"
             /\ j' = j + 1

----------------------------------------------------------------------------
Init ==
    /\ target_ok \in BOOLEAN
    /\ provider = "none"
    /\ similarity_dict \in (IF target_ok THEN RawMaps ELSE {<< >>})
    /\ threshold \in Thresholds
    /\ files = (IF target_ok THEN Images ELSE {})
    /\ archive_exists \in (IF target_ok THEN BOOLEAN ELSE {FALSE})
    /\ arch \in OldArchives
    /\ (\E f \in Images : arch[f] # "none") => archive_exists
    /\ compared_pairs = {}
    /\ i = 1
    /\ j = 1
    /\ pc = "start"
    /\ choice = ""
    /\ outcome = "running"
    /\ announced = << >>
    /\ prompted = << >>
    /\ report = ""
    /\ nExternal = 0

\* The archive directory made up front, beside line 141, not on first use.
LoadProvider_MakesArchive ==
    /\ pc = "start"
    /\ provider' = "initialised"
    /\ pc' = "scan"
    /\ archive_exists' = TRUE
    /\ UNCHANGED <<target_ok, similarity_dict, threshold, files, arch,
                   compared_pairs, i, j, choice, outcome, announced,
                   prompted, report, nExternal>>

\* Lines 143-144 and 28: main() validates nothing about target_dir; it calls
\* get_similarity_dict, whose first statement builds the CNN provider.
LoadProvider ==
    /\ pc = "start"
    /\ provider' = "initialised"
    /\ pc' = "scan"
    /\ UNCHANGED <<target_ok, similarity_dict, threshold, files,
                   archive_exists, arch, compared_pairs, i, j, choice,
                   outcome, announced, prompted, report, nExternal>>

\* Lines 31-61 and 146-151: target_dir.iterdir() raises when the target is
\* no directory, and nothing catches it; else the provider runs and the map
\* is built, and an empty map ends the run.
Start ==
    /\ pc = "scan"
    /\ IF ~target_ok
       THEN /\ pc' = "aborted"
            /\ outcome' = "traceback"
            /\ provider' = provider
       ELSE /\ provider' = "ran"
            /\ IF similarity_dict = << >>
               THEN /\ pc' = "done"
                    /\ outcome' = "nomatch"
               ELSE /\ pc' = "outer"
                    /\ outcome' = outcome
    /\ UNCHANGED <<target_ok, similarity_dict, threshold, files,
                   archive_exists, arch, compared_pairs, i, j, choice,
                   announced, prompted, report, nExternal>>

\* Lines 154-157: the next entry of the map, passed over when its source
\* image is gone; the end of the map ends the session.
OuterStep ==
    /\ pc = "outer"
    /\ IF i > Len(similarity_dict)
       THEN /\ pc' = "done"
            /\ outcome' = "exhausted"
            /\ UNCHANGED <<i, j>>
       ELSE IF ~Exists(Img1)
       THEN /\ i' = i + 1
            /\ UNCHANGED <<pc, j, outcome>>
       ELSE /\ pc' = "inner"
            /\ j' = 1
            /\ UNCHANGED <<i, outcome>>
    /\ UNCHANGED <<target_ok, provider, similarity_dict, threshold, files,
                   archive_exists, arch,
                   compared_pairs, choice, announced, prompted, report,
                   nExternal>>

\* Lines 159-174: the next match of the entry: dropped below the threshold,
\* when the match is gone, or when the pair was compared; else recorded in
\* compared_pairs and announced.
InnerStep ==
    /\ pc = "inner"
    /\ IF j > Len(Matches)
       THEN /\ pc' = "outer"
            /\ i' = i + 1
            /\ UNCHANGED <<j, compared_pairs, announced>>
       ELSE IF \/ BelowThreshold(Similarity, threshold)
               \/ ~Exists(Img2)
               \/ SortedPair(Img1, Img2) \in compared_pairs
       THEN /\ NextMatch
            /\ UNCHANGED <<i, compared_pairs, announced>>
       ELSE /\ compared_pairs' = compared_pairs \cup {SortedPair(Img1, Img2)}
            /\ announced' = Append(announced, <<Img1, Img2, Format3(Similarity)>>)
            /\ pc' = "verify"
            /\ UNCHANGED <<i, j>>
    /\ choice' = ""
    /\ report' = ""
    /\ UNCHANGED <<target_ok, provider, similarity_dict, threshold, files,
                   archive_exists, arch,
                   outcome, prompted, nExternal>>

\* Lines 176-180: both files are verified before the comparison is built.
VerifyStep ==
    /\ pc = "verify"
    /\ IF ~Exists(Img1) \/ ~Exists(Img2)
       THEN /\ report' = "vanished"
            /\ NextMatch
       ELSE /\ pc' = "render"
            /\ UNCHANGED <<j, report>>
    /\ UNCHANGED <<target_ok, provider, similarity_dict, threshold, files,
                   archive_exists, arch,
                   compared_pairs, i, choice, outcome, announced, prompted,
                   nExternal>>

\* What lines 182-186 end in when both files are there: the comparison is
\* shown; viu runs and exits non-zero (CalledProcessError); viu is not
\* installed (subprocess.run raises FileNotFoundError); Pillow cannot
\* compose the image (any other exception).
RenderOutcomes == {"shown", "viu_failed", "viu_missing", "compose_error"}

\* The outcomes after which control reaches the prompt loop of line 193:
\* no exception, and the handler of line 187, which has no `continue`.
ReachesPrompt(r) == r \in {"shown", "viu_failed"}

\* The prompt loop is entered for the current pair.
ShowPrompt ==
    /\ pc' = "prompt"
    /\ prompted' = Append(prompted, <<Img1, Img2>>)
    /\ choice' = ""
    /\ j' = j

\* Lines 182-191: the comparison is built and displayed.  A file that went
\* missing since line 178 makes Image.open raise, which line 189 catches.
RenderStep ==
    /\ pc = "render"
    /\ \E r \in RenderOutcomes :
         LET res == IF Exists(Img1) /\ Exists(Img2) THEN r ELSE "compose_error"
         IN /\ report' = res
            /\ IF ReachesPrompt(res)
               THEN ShowPrompt
               ELSE /\ NextMatch
                    /\ UNCHANGED <<prompted, choice>>
    /\ UNCHANGED <<target_ok, provider, similarity_dict, threshold, files,
                   archive_exists, arch,
                   compared_pairs, i, outcome, announced, nExternal>>

\* The prompt loop with the `break` of "s" missing: a skip prompts again.
PromptStep_SkipReprompts ==
    /\ pc = "prompt"
    /\ \E k \in Keys :
         LET c == Lower(k)
         IN /\ choice' = c
            /\ IF ~Exists(Img1) \/ ~Exists(Img2)
               THEN /\ NextMatch
                    /\ UNCHANGED outcome
               ELSE IF c \in {"1", "2"}
               THEN /\ pc' = "apply"
                    /\ UNCHANGED <<j, outcome>>
               ELSE IF c = "q"
               THEN /\ pc' = "done"
                    /\ outcome' = "quit"
                    /\ UNCHANGED j
               ELSE UNCHANGED <<pc, j, outcome>>
    /\ UNCHANGED <<target_ok, provider, similarity_dict, threshold, files,
                   archive_exists, arch,
                   compared_pairs, i, announced, prompted, report,
                   nExternal>>

\* Lines 193-216 up to the dispatch on the choice: one line is read and
\* lowered; line 199 verifies both files before the choice is looked at.
PromptStep ==
    /\ pc = "prompt"
    /\ \E k \in Keys :
         LET c == Lower(k)
         IN /\ choice' = c
            /\ IF ~Exists(Img1) \/ ~Exists(Img2)
               THEN /\ NextMatch
                    /\ UNCHANGED outcome
               ELSE IF c \in {"1", "2"}
               THEN /\ pc' = "apply"
                    /\ UNCHANGED <<j, outcome>>
               ELSE IF c = "s"
               THEN /\ NextMatch
                    /\ UNCHANGED outcome
               ELSE IF c = "q"
               THEN /\ pc' = "done"
                    /\ outcome' = "quit"
                    /\ UNCHANGED j
               ELSE UNCHANGED <<pc, j, outcome>>
    /\ UNCHANGED <<target_ok, provider, similarity_dict, threshold, files,
                   archive_exists, arch,
                   compared_pairs, i, announced, prompted, report,
                   nExternal>>

\* The kept file is archived in place of the other.
Loser_Swapped == IF choice = "1" THEN Img1 ELSE Img2

\* The file lines 203-210 archive: the second on "1", the first on "2".
Loser == IF choice = "1" THEN Img2 ELSE Img1

\* Lines 204 and 208: the file to archive is verified once more.
ApplyStep ==
    /\ pc = "apply"
    /\ IF Exists(Loser)
       THEN /\ pc' = "archive"
            /\ j' = j
       ELSE NextMatch
    /\ UNCHANGED <<target_ok, provider, similarity_dict, threshold, files,
                   archive_exists, arch,
                   compared_pairs, i, choice, outcome, announced, prompted,
                   report, nExternal>>

\* Both files of the presented pair are moved, not the chosen one only.
MoveToArchive_Both(path) ==
    /\ archive_exists' = TRUE
    /\ IF Exists(path)
       THEN /\ files' = files \ {Img1, Img2}
            /\ arch' = [f \in Images |->
                           IF f \in {Img1, Img2} THEN "moved" ELSE arch[f]]
            /\ NextMatch
       ELSE /\ pc' = "crashed"
            /\ UNCHANGED <<files, arch, j>>

\* The file is unlinked, nothing is put into the archive directory.
MoveToArchive_Delete(path) ==
    /\ archive_exists' = TRUE
    /\ IF Exists(path)
       THEN /\ files' = files \ {path}
            /\ arch' = arch
            /\ NextMatch
       ELSE /\ pc' = "crashed"
            /\ UNCHANGED <<files, arch, j>>

\* Lines 127-132, move_to_archive(path, archive_dir): the directory is made
\* (exist_ok), then shutil.move renames the file onto archive_dir/path.name,
\* replacing a file of that name; a missing source makes it raise.
MoveToArchive(path) ==
    /\ archive_exists' = TRUE
    /\ IF Exists(path)
       THEN /\ files' = files \ {path}
            /\ arch' = [arch EXCEPT ![path] = "moved"]
            /\ NextMatch
       ELSE /\ pc' = "crashed"
            /\ UNCHANGED <<files, arch, j>>

\* Lines 205 and 209: the call of move_to_archive; nothing in main catches
\* what it raises.
ArchiveStep ==
    /\ pc = "archive"
    /\ MoveToArchive(Loser)
    /\ UNCHANGED <<target_ok, provider, similarity_dict, threshold,
                   compared_pairs, i, choice,
                   outcome, announced, prompted, report, nExternal>>

\* Another program, or the user, removes an image file while main() runs.
ExternalDelete ==
    /\ pc \notin {"start", "scan", "aborted", "done", "crashed"}
    /\ nExternal < MaxExternal
    /\ \E f \in files :
         files' = files \ {f}
    /\ nExternal' = nExternal + 1
    /\ UNCHANGED <<target_ok, provider, similarity_dict, threshold,
                   archive_exists, arch,
                   compared_pairs, i, j, pc, choice, outcome, announced,
                   prompted, report>>

\* One statement of main().
Engine ==
    \/ LoadProvider
    \/ Start
    \/ OuterStep
    \/ InnerStep
    \/ VerifyStep
    \/ RenderStep
    \/ PromptStep
    \/ ApplyStep
    \/ ArchiveStep

Next ==
    \/ Engine
    \/ ExternalDelete

Spec == Init /\ [][Next]_vars

\* The session with no other program touching the directory.
SpecQuiet == Init /\ [][Engine]_vars

----------------------------------------------------------------------------
(* Vocabulary of the properties.                                           *)

\* The positions <<k, l>> of the raw map in scan order: entry k, match l.
Positions ==
    UNION {{<<k, l>> : l \in 1..Len(similarity_dict[k].matches)} :
              k \in 1..Len(similarity_dict)}

Src(p) == similarity_dict[p[1]].img
Dst(p) == similarity_dict[p[1]].matches[p[2]][1]
Score(p) == similarity_dict[p[1]].matches[p[2]][2]

\* p comes before q in the scan: source-key order, then list order.
Before(p, q) == p[1] < q[1] \/ (p[1] = q[1] /\ p[2] < q[2])

\* The unordered pair of an observation, an announcement or a prompt.
Unordered(a, b) == {a, b}

\* The observations of the unordered pair u that pass the threshold.
Passing(u) ==
    {p \in Positions : Unordered(Src(p), Dst(p)) = u /\ Score(p) >= threshold}

\* The announcements and the prompts made for the unordered pair u.
AnnouncedAt(u) ==
    {n \in 1..Len(announced) : Unordered(announced[n][1], announced[n][2]) = u}

PromptedAt(u) ==
    {n \in 1..Len(prompted) : Unordered(prompted[n][1], prompted[n][2]) = u}

UnorderedPairs == {Unordered(a, b) : a, b \in Images}

\* The session ran to the end of the map.
Exhausted == pc = "done" /\ outcome = "exhausted"

----------------------------------------------------------------------------
\* C1: within one session no unordered pair is announced more than once and
\* none is prompted for more than once, whatever the user decides and also
\* when the raw map lists the pair in both directions.
C1_NoPairPresentedTwice ==
    \A u \in UnorderedPairs :
        /\ Cardinality(AnnouncedAt(u)) <= 1
        /\ Cardinality(PromptedAt(u)) <= 1

\* C1 witness: the map lists a pair in both directions, both above the
\* threshold, both files stayed, the scan passed both listings, and the pair
\* was prompted for once.
C1_Witness ==
    /\ Exhausted
    /\ files = Images
    /\ \E p, q \in Positions :
          /\ Src(p) = Dst(q) /\ Dst(p) = Src(q)
          /\ Score(p) >= threshold /\ Score(q) >= threshold
          /\ Cardinality(PromptedAt(Unordered(Src(p), Dst(p)))) = 1

----------------------------------------------------------------------------
\* The file a keep decision is to archive: the second image on "1"
\* (KeepFirst), the first on "2" (KeepSecond).
ToArchive == IF choice = "1" THEN Matches[j][1] ELSE similarity_dict[i].img

\* Nothing of the directory or of the archive changes in the step.
SameFiles == files' = files /\ arch' = arch /\ archive_exists' = archive_exists

\* C2: a keep decision on a presented pair whose files both exist goes on to
\* the archive move (the prompt hands over to the re-check, the re-check to
\* the move, neither touching a file), and the move takes the other file of
\* the pair away from its path and puts it in the archive directory under its
\* base name, leaving the kept file, every other file of the directory and
\* every other file of the archive as they were.
C2_KeepArchivesOther ==
    [][ /\ ( /\ pc = "prompt"
             /\ choice' \in {"1", "2"}
             /\ Img1 \in files /\ Img2 \in files )
           => (pc' = "apply" /\ SameFiles)
        /\ (pc = "apply" /\ pc' # "apply" /\ ToArchive \in files)
           => (pc' = "archive" /\ choice' = choice /\ SameFiles)
        /\ (pc = "archive" /\ pc' # "archive" /\ ToArchive \in files)
           => /\ pc' = "inner"
              /\ files' = files \ {ToArchive}
              /\ archive_exists'
              /\ arch'[ToArchive] = "moved"
              /\ \A f \in Images \ {ToArchive} : arch'[f] = arch[f]
      ]_vars

\* C2 witness: KeepFirst was applied to a pair: the second image is gone
\* from its path and in the archive, the first is still at its path.
C2_Witness ==
    /\ pc = "inner"
    /\ choice = "1"
    /\ j > 1
    /\ Matches[j - 1][1] \notin files
    /\ arch[Matches[j - 1][1]] = "moved"
    /\ Img1 \in files

----------------------------------------------------------------------------
\* C3: a Quit typed at the prompt ends the session at once, whatever the
\* state of the two files: the step that reads "q" ends main() with nothing
\* else changed, and once the session was quit no pair is announced,
\* prompted for, added to compared_pairs or archived.
C3_QuitEndsSession ==
    /\ [][ (pc = "prompt" /\ choice' = "q")
             => /\ pc' = "done"
                /\ outcome' = "quit"
                /\ announced' = announced
                /\ prompted' = prompted
                /\ compared_pairs' = compared_pairs
                /\ SameFiles ]_vars
    /\ [][ outcome = "quit"
             => /\ announced' = announced
                /\ prompted' = prompted
                /\ compared_pairs' = compared_pairs
                /\ arch' = arch ]_vars

----------------------------------------------------------------------------
\* The reference normalization of a raw map: scan in source-key then list
\* order, drop a score below the threshold, drop an unordered pair already
\* emitted, emit the rest as <<source, match, score>>.
RECURSIVE NormalizeFrom(_, _, _, _, _, _)
NormalizeFrom(raw, t, k, l, seen, out) ==
    IF k > Len(raw) THEN out
    ELSE IF l > Len(raw[k].matches) THEN NormalizeFrom(raw, t, k + 1, 1, seen, out)
    ELSE LET a == raw[k].img
             b == raw[k].matches[l][1]
             s == raw[k].matches[l][2]
         IN IF s < t \/ Unordered(a, b) \in seen
            THEN NormalizeFrom(raw, t, k, l + 1, seen, out)
            ELSE NormalizeFrom(raw, t, k, l + 1, seen \cup {Unordered(a, b)},
                               Append(out, <<a, b, s>>))

Normalize(raw, t) == NormalizeFrom(raw, t, 1, 1, {}, << >>)

\* The session ended at the end of the map with every image still at its
\* path: no file disappeared and every decision taken was a Skip.
SkippedThrough == Exhausted /\ files = Images

\* C4: every announcement rests on an observation of the raw map whose score
\* is at or above the threshold, and every prompt is for an announced pair;
\* in a session of Skips where no file disappears, the announcements are, in
\* order, the edges of Normalize(raw map, threshold), each unordered pair
\* with an observation at or above the threshold (equality included) is
\* announced exactly once, and the prompts follow the announcements.
C4_ThresholdFiltering ==
    /\ \A n \in 1..Len(announced) :
          \E p \in Positions :
              /\ Src(p) = announced[n][1]
              /\ Dst(p) = announced[n][2]
              /\ Score(p) >= threshold
              /\ announced[n][3] = (Score(p) + 5) \div 10
    /\ \A n \in 1..Len(prompted) :
          AnnouncedAt(Unordered(prompted[n][1], prompted[n][2])) # {}
    /\ SkippedThrough =>
          LET edges == Normalize(similarity_dict, threshold)
          IN /\ Len(announced) = Len(edges)
             /\ \A n \in 1..Len(edges) :
                   /\ announced[n][1] = edges[n][1]
                   /\ announced[n][2] = edges[n][2]
                   /\ announced[n][3] = (edges[n][3] + 5) \div 10
             /\ \A u \in UnorderedPairs :
                   Cardinality(AnnouncedAt(u)) = IF Passing(u) = {} THEN 0 ELSE 1
             /\ Len(prompted) = Len(announced) =>
                   \A n \in 1..Len(prompted) :
                       prompted[n] = <<announced[n][1], announced[n][2]>>

\* C4 witness: a session of Skips over a map with one score equal to the
\* threshold and one below it ended with the first pair announced and
\* prompted for, and the second not.
C4_Witness ==
    /\ SkippedThrough
    /\ Len(announced) = 1
    /\ Len(prompted) = 1
    /\ \E p, q \in Positions :
          /\ Score(p) = threshold
          /\ Score(q) < threshold
          /\ Unordered(Src(p), Dst(p)) # Unordered(Src(q), Dst(q))

----------------------------------------------------------------------------
\* p and q list the same unordered pair in the two directions, p first in
\* scan order, with different scores.
BothDirections(p, q) ==
    /\ Src(p) = Dst(q)
    /\ Dst(p) = Src(q)
    /\ Score(p) # Score(q)
    /\ Before(p, q)

\* C5 as stated: when the map lists {A, B} in both directions with different
\* scores then, for every threshold, exactly one edge is announced for it,
\* with the score of the direction first in scan order.
C5_FirstDirectionScore ==
    SkippedThrough =>
        \A p, q \in Positions :
            BothDirections(p, q) =>
                LET at == AnnouncedAt(Unordered(Src(p), Dst(p)))
                IN /\ Cardinality(at) = 1
                   /\ \A n \in at : announced[n][3] = (Score(p) + 5) \div 10

\* C5 amended: when the map lists {A, B} in both directions with different
\* scores, no edge is announced for it when both scores are below the
\* threshold, and otherwise exactly one, which is the first direction in scan
\* order among those at or above the threshold, with that direction's score.
C5_FirstPassingDirection ==
    SkippedThrough =>
        \A p, q \in Positions :
            BothDirections(p, q) =>
                LET u == Unordered(Src(p), Dst(p))
                    at == AnnouncedAt(u)
                    first == IF Score(p) >= threshold THEN p ELSE q
                IN IF Score(p) < threshold /\ Score(q) < threshold
                   THEN at = {}
                   ELSE /\ Cardinality(at) = 1
                        /\ \A n \in at :
                              announced[n] = <<Src(first), Dst(first),
                                               (Score(first) + 5) \div 10>>

\* C5 witness: a session of Skips over a map that lists a pair in both
\* directions with different scores, both at or above the threshold, ended
\* with one announcement for the pair.
C5_Witness ==
    /\ SkippedThrough
    /\ \E p, q \in Positions :
          /\ BothDirections(p, q)
          /\ Score(p) >= threshold
          /\ Score(q) >= threshold
          /\ Cardinality(AnnouncedAt(Unordered(Src(p), Dst(p)))) = 1

----------------------------------------------------------------------------
\* C6: a pair is selected (added to compared_pairs and announced) only if
\* both of its files exist at that moment, also when the missing file was
\* archived by an earlier decision of the session, and a pair with a missing
\* file is passed over without any report.
C6_SelectedOnlyIfBothExist ==
    /\ [][ (announced' # announced \/ compared_pairs' # compared_pairs)
             => (Img1 \in files /\ Img2 \in files) ]_vars
    /\ [][ report' # "vanished" ]_vars

\* C7: whenever the rendering block reported a failure for the pair last
\* announced (viu exiting non-zero, viu not installed, the image not
\* composable), the decision prompt of that pair was shown.
C7_RenderFailureStillPrompts ==
    report \in {"viu_failed", "viu_missing", "compose_error"} =>
        PromptedAt(Unordered(announced[Len(announced)][1],
                             announced[Len(announced)][2])) # {}

\* C8: with another program removing image files between any two statements
\* of main(), the session never ends in an unhandled exception.
C8_NoUnhandledFault == pc # "crashed"

\* C9: move_to_archive called for a file that does not exist returns to its
\* caller, which goes on to the next match, and leaves the directory and the
\* archived files as they were (the archive directory may have been made).
C9_AbsentFileIsNoFault ==
    [][ (pc = "archive" /\ pc' # "archive" /\ ToArchive \notin files)
          => (pc' = "inner" /\ files' = files /\ arch' = arch) ]_vars

\* C10: a file that is in the archive directory is never replaced or
\* destroyed by a later archive action on the same base name.
C10_ArchivedFileNeverReplaced ==
    [][ \A f \in Images : arch[f] # "none" => arch'[f] = arch[f] ]_vars

----------------------------------------------------------------------------
\* C11: at the prompt, whatever the state of the two files, a line that is
\* none of 1, 2, s, q (in either case) leaves the session at the prompt of
\* the same pair and changes nothing: the loops stay where they are, no pair
\* is added to compared_pairs, announced or prompted for, no file moves.
C11_InvalidInputChangesNothing ==
    [][ (pc = "prompt" /\ choice' = "x" /\ files' = files)
          => /\ pc' = "prompt"
             /\ i' = i
             /\ j' = j
             /\ compared_pairs' = compared_pairs
             /\ announced' = announced
             /\ prompted' = prompted
             /\ SameFiles ]_vars

----------------------------------------------------------------------------
\* C12: when target_directory does not exist or is no directory the run ends
\* in an error before any processing starts: the similarity provider is
\* never initialised or run, no file is touched, and the run never gets into
\* the session.
C12_BadTargetFailsFast ==
    ~target_ok =>
        /\ provider = "none"
        /\ pc \in {"start", "aborted"}
        /\ files = {}
        /\ ~archive_exists

----------------------------------------------------------------------------
\* C13: a keep decision re-verifies the file it is to archive when it is
\* applied: read with both files present it leads to the archive move, and
\* from there on the file is archived if it is still present, and if it is
\* absent nothing is archived and the session goes on to the next match
\* without fault.
C13_KeepReverifiesOther ==
    [][ /\ ( /\ pc = "prompt"
             /\ choice' \in {"1", "2"}
             /\ Img1 \in files /\ Img2 \in files )
           => pc' = "apply"
        /\ (pc \in {"apply", "archive"} /\ pc' # pc)
           => IF ToArchive \in files
              THEN \/ pc' = "archive" /\ SameFiles
                   \/ /\ pc' = "inner"
                      /\ files' = files \ {ToArchive}
                      /\ arch'[ToArchive] = "moved"
              ELSE /\ pc' = "inner"
                   /\ files' = files
                   /\ arch' = arch
      ]_vars

----------------------------------------------------------------------------
\* The run of spec section 8: a.jpg -> [(b.jpg, 0.95)] alone, threshold 0.92.
RerunScenario ==
    /\ similarity_dict = <<[img |-> 1, matches |-> <<(<<2, 9504>>)>>]>>
    /\ threshold = DefaultThreshold

\* C14: a session on an existing directory stops only when it is Terminated,
\* by Quit or by exhaustion of the map: in every other state a statement of
\* main() can run (at the prompt, on a recognized decision); and in the run
\* of section 8, once b.jpg was archived by KeepFirst, the session that ended
\* ended as exhausted after exactly one prompt.
C14_StopsOnlyTerminated ==
    /\ target_ok =>
          \/ pc = "done" /\ outcome \in {"quit", "exhausted", "nomatch"}
          \/ ENABLED Engine
    /\ (RerunScenario /\ pc = "done" /\ arch[2] = "moved") =>
          (outcome = "exhausted" /\ Len(prompted) = 1 /\ 1 \in files)

----------------------------------------------------------------------------
\* C15: a Skip moves no file and does not make the archive directory, the
\* session goes on to the next match, and a pair that was prompted for (so
\* every skipped pair) is never announced again, whichever later entry of
\* the raw map lists it.
C15_SkipChangesNoFile ==
    /\ [][ (pc = "prompt" /\ choice' = "s")
             => (pc' = "inner" /\ j' = j + 1 /\ SameFiles) ]_vars
    /\ [][ announced' # announced
             => PromptedAt(Unordered(Img1, Img2)) = {} ]_vars

\* C15 witness: the pair of the map's first entry was skipped, nothing moved,
\* and the scan has passed a later listing of the same pair, in the other
\* direction, without announcing it again.
C15_Witness ==
    /\ Exhausted
    /\ files = Images
    /\ \A f \in Images : arch[f] # "moved"
    /\ Len(announced) = 1
    /\ Len(prompted) = 1
    /\ Len(similarity_dict) = 2
    /\ Src(<<2, 1>>) = Dst(<<1, 1>>)
    /\ Dst(<<2, 1>>) = Src(<<1, 1>>)
    /\ Score(<<2, 1>>) >= threshold

----------------------------------------------------------------------------
\* C16: the archive directory is made only by an archive action (the call of
\* move_to_archive), so a session of Skip, Quit and unrecognized lines, or
\* one with nothing at or above the threshold, never makes it; a directory
\* that exists is not an error for the move, is never removed, and no file
\* in it is taken out.
C16_ArchiveDirLazy ==
    [][ /\ archive_exists' # archive_exists
           => (pc = "archive" /\ archive_exists')
        /\ archive_exists => archive_exists'
        /\ \A f \in Images : arch[f] # "none" => arch'[f] # "none"
        /\ ( /\ pc = "archive" /\ pc' # pc
             /\ archive_exists /\ ToArchive \in files )
           => pc' = "inner"
      ]_vars

\* C16 witness: a session in which pairs were skipped and which was then
\* quit ended with no archive directory.
C16_Witness ==
    /\ pc = "done"
    /\ outcome = "quit"
    /\ Len(prompted) = 2
    /\ ~archive_exists

----------------------------------------------------------------------------
\* The images one step away from S in the graph whose edges are the
\* unordered pairs with an observation at or above the threshold, and the
\* connected component of that graph around S.
Grow(S) == S \cup {b \in Images : \E a \in S : Passing(Unordered(a, b)) # {}}

RECURSIVE Component(_)
Component(S) == IF Grow(S) = S THEN S ELSE Component(Grow(S))

\* C17: without external file changes, a step takes files away only as the
\* archive action of the presented pair, while both files of the pair are
\* there, and it takes exactly one of the two; no more files are gone than
\* pairs were prompted for; and every connected component of the
\* above-threshold graph keeps at least one image at its original path.
C17_ClusterNeverEmptied ==
    /\ [][ files' # files
             => /\ pc = "archive"
                /\ Img1 \in files /\ Img2 \in files
                /\ \E f \in {Img1, Img2} : files' = files \ {f} ]_vars
    /\ [](target_ok =>
             /\ Cardinality(Images \ files) <= Len(prompted)
             /\ \A a \in Images : Component({a}) \cap files # {})

\* C17 witness: the three images are one cluster, the session ran to the end
\* of the map and two of them were archived.
C17_Witness ==
    /\ Exhausted
    /\ Component({1}) = Images
    /\ Cardinality(files) = 1

----------------------------------------------------------------------------
\* C18: without external file changes, whenever the decision prompt is up
\* both files of its pair are at their original paths and neither was
\* archived in this session.
C18_NoPromptForArchived ==
    pc = "prompt" => /\ Img1 \in files /\ Img2 \in files
                     /\ arch[Img1] # "moved" /\ arch[Img2] # "moved"

\* C18 witness: the first image of the current entry was archived by
\* KeepSecond at its first match, and the check before rendering has just
\* dropped the entry's second match without a prompt.
C18_Witness ==
    /\ pc = "inner"
    /\ j = 3
    /\ report = "vanished"
    /\ arch[similarity_dict[i].img] = "moved"
    /\ Len(announced) = 2
    /\ Len(prompted) = 1

----------------------------------------------------------------------------
\* C19: without external file changes and with an archive that held no file
\* of an image's name at the start, every image is in exactly one place, its
\* original path or the archive; a file that is gone from its path never
\* comes back, an archived file stays archived, and a file enters the
\* archive only in a step that takes it from its path, so at most once.
C19_ImagesConserved ==
    /\ []((target_ok /\ \A f \in Images : arch[f] # "old")
             => \A f \in Images : (f \in files) # (arch[f] = "moved"))
    /\ [][ \A f \in Images :
              /\ f \notin files => f \notin files'
              /\ arch[f] = "moved" => arch'[f] = "moved"
              /\ arch'[f] # arch[f]
                 => (f \in files /\ f \notin files' /\ arch'[f] = "moved")
         ]_vars

\* C19 witness: a session that archived one image into an archive that held
\* no file of any image's name and was then quit at the next prompt.
C19_Witness ==
    /\ pc = "done"
    /\ outcome = "quit"
    /\ Len(prompted) = 2
    /\ Cardinality({f \in Images : arch[f] = "moved"}) = 1
    /\ Cardinality({f \in Images : arch[f] = "none"}) = 2

====
